---- MODULE Spec2Model ----
(***************************************************************************)
(* SinGen (src/main.rs): command line -> Config -> generate_linear_chirp   *)
(* -> float_samples_to_bytes -> one of six output formats.                 *)
(*                                                                         *)
(* f32 values are modelled bit-exactly as sign / 24-bit mantissa /         *)
(* exponent triples with IEEE-754 round-to-nearest-even; u32 values that   *)
(* can pass 2^31 are kept as two 16-bit limbs.  Infinities and NaN are     *)
(* modelled; exponent overflow and subnormals lie outside the input sets.  *)
(***************************************************************************)
EXTENDS Integers, Sequences, FiniteSets, TLC

\* ------------------------------------------------------------------ bounds
\* Longest generation loop the model follows (samples per run).
MaxSamples == 16
\* Most command-line arguments after the program name.
MaxArgs == 6
\* Longest sample slice handed to float_samples_to_bytes on its own.
MaxSlice == 2

\* ------------------------------------------------------- integer utilities
RECURSIVE Pow2(_)
Pow2(n) == IF n <= 0 THEN 1 ELSE 2 * Pow2(n - 1)

RECURSIVE BitLen(_)
BitLen(n) == IF n = 0 THEN 0 ELSE 1 + BitLen(n \div 2)

\* ------------------------------------------------------------ f32 numbers
\* value = (-1)^s * m * 2^e, with m = 0 or 2^23 <= m < 2^24;
\* e = 128 with m = 0 is an infinity, e = 129 is NaN.
F32(s, m, e) == [s |-> s, m |-> m, e |-> e]
FZero == F32(0, 0, 0)
FInf(s) == F32(s, 0, 128)
FNaN == F32(0, 0, 129)
IsNaN(a) == a.e = 129
IsInf(a) == a.e = 128
IsFinite(a) == a.e < 128

\* Round an integer significand m (< 2^31) plus a sticky bit to 24 bits,
\* ties to even, and normalise.
RoundPack(s, m, e, sticky) ==
    IF m = 0 THEN F32(s, 0, 0)
    ELSE LET n == BitLen(m) IN
         IF n <= 24 THEN F32(s, m * Pow2(24 - n), e - (24 - n))
         ELSE LET k    == n - 24
                  q    == m \div Pow2(k)
                  r    == m % Pow2(k)
                  half == Pow2(k - 1)
                  up   == \/ r > half
                          \/ r = half /\ sticky
                          \/ r = half /\ ~sticky /\ q % 2 = 1
                  q2   == IF up THEN q + 1 ELSE q
              IN IF q2 = 16777216 THEN F32(s, 8388608, e + k + 1)
                                  ELSE F32(s, q2, e + k)

\* `n as f32` for an unsigned integer n
FromNat(n) == RoundPack(0, n, 0, FALSE)

FNeg(a) == F32(1 - a.s, a.m, a.e)
FAbs(a) == F32(0, a.m, a.e)
FIsZero(a) == IsFinite(a) /\ a.m = 0

\* |a| < |b|
MagLt(a, b) ==
    IF IsInf(a) THEN FALSE
    ELSE IF IsInf(b) THEN TRUE
    ELSE IF a.m = 0 THEN b.m # 0
    ELSE IF b.m = 0 THEN FALSE
    ELSE a.e < b.e \/ (a.e = b.e /\ a.m < b.m)

\* a < b
FLt(a, b) ==
    IF IsNaN(a) \/ IsNaN(b) THEN FALSE
    ELSE IF FIsZero(a) /\ FIsZero(b) THEN FALSE
    ELSE IF a.s = 1 /\ b.s = 0 THEN TRUE
    ELSE IF a.s = 0 /\ b.s = 1 THEN FALSE
    ELSE IF a.s = 0 THEN MagLt(a, b) ELSE MagLt(b, a)

\* a * b
FMul(a, b) ==
    LET s == (a.s + b.s) % 2 IN
    IF IsNaN(a) \/ IsNaN(b) THEN FNaN
    ELSE IF IsInf(a) \/ IsInf(b)
         THEN (IF FIsZero(a) \/ FIsZero(b) THEN FNaN ELSE FInf(s))
    ELSE IF a.m = 0 \/ b.m = 0 THEN F32(s, 0, 0)
    ELSE LET ah    == a.m \div 4096
             al    == a.m % 4096
             bh    == b.m \div 4096
             bl    == b.m % 4096
             mid   == ah * bl + al * bh
             low   == (mid % 4096) * 4096 + al * bl
             low24 == low % 16777216
             high  == ah * bh + mid \div 4096 + low \div 16777216
         IN RoundPack(s, high * 4 + low24 \div 4194304,
                      a.e + b.e + 22, low24 % 4194304 # 0)

\* long division: n more quotient bits of r / d
RECURSIVE DivBits(_, _, _, _)
DivBits(q, r, d, n) ==
    IF n = 0 THEN <<q, r>>
    ELSE IF 2 * r >= d THEN DivBits(2 * q + 1, 2 * r - d, d, n - 1)
                       ELSE DivBits(2 * q, 2 * r, d, n - 1)

\* a / b
FDiv(a, b) ==
    LET s == (a.s + b.s) % 2 IN
    IF IsNaN(a) \/ IsNaN(b) THEN FNaN
    ELSE IF IsInf(a) THEN (IF IsInf(b) THEN FNaN ELSE FInf(s))
    ELSE IF IsInf(b) THEN F32(s, 0, 0)
    ELSE IF b.m = 0 THEN (IF a.m = 0 THEN FNaN ELSE FInf(s))
    ELSE IF a.m = 0 THEN F32(s, 0, 0)
    ELSE LET qr == DivBits(a.m \div b.m, a.m % b.m, b.m, 26)
         IN RoundPack(s, qr[1], a.e - b.e - 26, qr[2] # 0)

\* a + b
FAdd(a, b) ==
    IF IsNaN(a) \/ IsNaN(b) THEN FNaN
    ELSE IF IsInf(a) THEN (IF IsInf(b) /\ a.s # b.s THEN FNaN ELSE a)
    ELSE IF IsInf(b) THEN b
    ELSE IF a.m = 0 THEN (IF b.m = 0 THEN F32(IF a.s = 1 /\ b.s = 1 THEN 1 ELSE 0, 0, 0) ELSE b)
    ELSE IF b.m = 0 THEN a
    ELSE LET big   == IF MagLt(a, b) THEN b ELSE a
             small == IF MagLt(a, b) THEN a ELSE b
             d     == big.e - small.e
             sm    == IF d > 27 THEN 0 ELSE (small.m * 8) \div Pow2(d)
             st    == IF d > 27 THEN TRUE ELSE (small.m * 8) % Pow2(d) # 0
         IN IF big.s = small.s
            THEN RoundPack(big.s, big.m * 8 + sm, big.e - 3, st)
            ELSE LET diff == big.m * 8 - sm - (IF st THEN 1 ELSE 0)
                 IN IF diff = 0 /\ ~st THEN FZero
                    ELSE RoundPack(big.s, diff, big.e - 3, st)

\* a - b
FSub(a, b) == FAdd(a, FNeg(b))

\* the % operator on f32 (fmod): exact, result has the sign of a
RECURSIVE ModShift(_, _, _)
ModShift(r, d, n) == IF n = 0 THEN r ELSE ModShift((2 * r) % d, d, n - 1)

FRem(a, b) ==
    IF IsNaN(a) \/ IsNaN(b) \/ IsInf(a) \/ FIsZero(b) THEN FNaN
    ELSE IF a.m = 0 \/ MagLt(a, b) THEN a
    ELSE RoundPack(a.s, ModShift(a.m % b.m, b.m, a.e - b.e), b.e, FALSE)

\* f32::rem_euclid
RemEuclid(a, rhs) ==
    LET r == FRem(a, rhs)
    IN IF FLt(r, FZero) THEN FAdd(r, FAbs(rhs)) ELSE r

\* f32::round: nearest integer, halves away from zero
FRound(a) ==
    IF ~IsFinite(a) \/ a.m = 0 \/ a.e >= 0 THEN a
    ELSE IF -a.e > 24 THEN F32(a.s, 0, 0)
    ELSE LET p == Pow2(-a.e)
             q == a.m \div p
             q2 == IF 2 * (a.m % p) >= p THEN q + 1 ELSE q
         IN RoundPack(a.s, q2, 0, FALSE)

\* --------------------------------------------------------- integer casts
\* magnitude of a finite f32 truncated toward zero (values below 2^31)
TruncMag(a) ==
    IF a.m = 0 THEN 0
    ELSE IF a.e >= 0 THEN a.m * Pow2(a.e)
    ELSE IF -a.e > 24 THEN 0
    ELSE a.m \div Pow2(-a.e)

\* `x as usize` (saturating; NaN gives 0).  Counts of 2^31 and more are
\* outside the modelled inputs and read as 2^31 - 1.
AsUsize(a) ==
    IF IsNaN(a) THEN 0
    ELSE IF a.s = 1 THEN 0
    ELSE IF IsInf(a) \/ (a.m # 0 /\ a.e >= 8) THEN 2147483647
    ELSE TruncMag(a)

\* `x as u32` of a non-negative f32 below 2^31 (print_c_array's name)
AsU32(a) == AsUsize(a)

\* an i32 is the pair <<hi, lo>> of 16-bit limbs of its two's complement
I32Max == <<32767, 65535>>
I32Min == <<32768, 0>>
I32Of(n) == <<n \div 65536, n % 65536>>
I32Neg(n) ==
    IF n = 0 THEN <<0, 0>>
    ELSE IF n % 65536 = 0 THEN <<65536 - (n \div 65536), 0>>
    ELSE <<65535 - (n \div 65536), 65536 - (n % 65536)>>

\* `x as i32` (saturating; NaN gives 0)
AsI32(a) ==
    IF IsNaN(a) THEN <<0, 0>>
    ELSE IF IsInf(a) \/ (a.m # 0 /\ a.e >= 8)
         THEN (IF a.s = 0 THEN I32Max ELSE I32Min)
    ELSE IF a.s = 0 THEN I32Of(TruncMag(a)) ELSE I32Neg(TruncMag(a))

\* i32::to_le_bytes
ToLeBytes(v) == <<v[2] % 256, v[2] \div 256, v[1] % 256, v[1] \div 256>>

\* ------------------------------------------------------------ constants
\* std::f32::consts::TAU = 0x40C90FDB
TAU == F32(0, 13176795, -21)

SampleWidths == {2, 3, 4}

\* get_range with the 16-bit bound one too large (2^15)
get_range_full(sample_width) ==
    CASE sample_width = 2 -> FromNat(32768)
      [] sample_width = 3 -> FromNat(8388607)
      [] sample_width = 4 -> FromNat(2147483647)

\* get_range: the literal is rounded to f32 (2147483647.0 becomes 2^31)
get_range(sample_width) ==
    CASE sample_width = 2 -> FromNat(32767)
      [] sample_width = 3 -> FromNat(8388607)
      [] sample_width = 4 -> FromNat(2147483647)

\* SampleWidth::to_str
to_str(sample_width) ==
    CASE sample_width = 2 -> "16"
      [] sample_width = 3 -> "24"
      [] sample_width = 4 -> "32"

\* ------------------------------------------------------------------ sin
\* f32::sin has unspecified precision; it is computed here in Q14 fixed
\* point by a Taylor polynomial on the reduced quadrant (error < 2^-12).
HalfPiQ14 == 25736

ToQ14(a) ==
    IF a.m = 0 THEN 0
    ELSE IF a.e + 14 >= 0 THEN a.m * Pow2(a.e + 14)
    ELSE IF -(a.e + 14) > 24 THEN 0
    ELSE a.m \div Pow2(-(a.e + 14))

SinQuadrant(x) ==
    LET x2 == (x * x) \div 16384
        t4 == 16384 - x2 \div 72
        t3 == 16384 - ((x2 * t4) \div 16384) \div 42
        t2 == 16384 - ((x2 * t3) \div 16384) \div 20
        t1 == 16384 - ((x2 * t2) \div 16384) \div 6
        r  == (x * t1) \div 16384
    IN IF r > 16384 THEN 16384 ELSE r

\* sin of a phase in [0, TAU]
Sin(a) ==
    IF ~IsFinite(a) THEN FNaN
    ELSE LET x == ToQ14(a) % (4 * HalfPiQ14)
             y == CASE x <= HalfPiQ14     -> SinQuadrant(x)
                    [] x <= 2 * HalfPiQ14 -> SinQuadrant(2 * HalfPiQ14 - x)
                    [] x <= 3 * HalfPiQ14 -> SinQuadrant(x - 2 * HalfPiQ14)
                    [] OTHER              -> SinQuadrant(4 * HalfPiQ14 - x)
             s == IF x <= 2 * HalfPiQ14 THEN a.s ELSE 1 - a.s
         IN RoundPack(s, y, -14, FALSE)

\* ------------------------------------------------------ argument parsing
\* str::parse::<f32> on the argument strings the model supplies
ParseF32(str) ==
    CASE str = "440"     -> [ok |-> TRUE, v |-> FromNat(440)]
      [] str = "1000"    -> [ok |-> TRUE, v |-> FromNat(1000)]
      [] str = "-0.0001" -> [ok |-> TRUE, v |-> FNeg(FDiv(FromNat(1), FromNat(10000)))]
      [] str = "0"       -> [ok |-> TRUE, v |-> FZero]
      [] str = "1"       -> [ok |-> TRUE, v |-> FromNat(1)]
      [] str = "0.28125" -> [ok |-> TRUE, v |-> FDiv(FromNat(9), FromNat(32))]
      [] OTHER           -> [ok |-> FALSE, v |-> FZero]

\* str::parse::<u32>
ParseU32(str) ==
    CASE str = "0"          -> [ok |-> TRUE, v |-> 0]
      [] str = "16000"      -> [ok |-> TRUE, v |-> 16000]
      [] str = "48000"      -> [ok |-> TRUE, v |-> 48000]
      [] str = "1073741824" -> [ok |-> TRUE, v |-> 1073741824]
      [] OTHER              -> [ok |-> FALSE, v |-> 0]

\* str::parse::<u8>
ParseU8(str) ==
    CASE str = "1"   -> [ok |-> TRUE, v |-> 1]
      [] str = "2"   -> [ok |-> TRUE, v |-> 2]
      [] str = "3"   -> [ok |-> TRUE, v |-> 3]
      [] OTHER       -> [ok |-> FALSE, v |-> 0]

\* SampleWidth::from_str
SampleWidth_from_str(str) ==
    CASE str = "16" -> [ok |-> TRUE, v |-> 2]
      [] str = "24" -> [ok |-> TRUE, v |-> 3]
      [] str = "32" -> [ok |-> TRUE, v |-> 4]
      [] OTHER      -> [ok |-> FALSE, v |-> 2]

\* str::to_lowercase on the format strings the model supplies
to_lowercase(str) ==
    CASE str = "HEX" -> "hex"
      [] str = "Wav" -> "wav"
      [] OTHER       -> str

\* OutputFormat::from_str
OutputFormat_from_str(str) ==
    LET l == to_lowercase(str) IN
    CASE l = "hex"                   -> [ok |-> TRUE, v |-> "Hex"]
      [] l = "carray" \/ l = "c"     -> [ok |-> TRUE, v |-> "CArray"]
      [] l = "rustarray" \/ l = "rust" -> [ok |-> TRUE, v |-> "RustArray"]
      [] l = "raw" \/ l = "bytes"    -> [ok |-> TRUE, v |-> "RawBytes"]
      [] l = "info"                  -> [ok |-> TRUE, v |-> "Info"]
      [] l = "wav"                   -> [ok |-> TRUE, v |-> "WavFile"]
      [] OTHER                       -> [ok |-> FALSE, v |-> "Hex"]

\* argument strings supplied after each flag
FrequencyArgs == {"1000", "-0.0001", "abc"}
RateArgs      == {"0", "48000", "1073741824", "fast"}
ChannelArgs   == {"1", "2", "3", "two"}
BitsArgs      == {"16", "24", "32", "8"}
DurationArgs  == {"0", "0.28125", "long"}
OutputArgs    == {"hex", "HEX", "carray", "c", "rustarray", "rust", "raw",
                  "bytes", "info", "wav", "Wav", "mp3"}

\* ---------------------------------------------------------------- state
VARIABLES
    build,          \* "debug": overflow checks panic; "release": wrap
    argc,           \* args.len() - 1
    i,              \* parse_args: index into args
    config,         \* Config
    pc,             \* position of the program
    exit_code,      \* process exit status, -1 while running
    wrapped,        \* an integer operation wrapped around (release)
    total_samples,  \* main
    total_bytes,    \* main
    num_samples,    \* generate_linear_chirp
    dt,             \* generate_linear_chirp
    phase,          \* generate_linear_chirp
    gi,             \* generate_linear_chirp: loop index i
    divisions,      \* evaluations of t / duration_secs so far
    samples,        \* Vec<f32> built by generate_linear_chirp
    ei,             \* float_samples_to_bytes: samples consumed
    buffer,         \* Vec<u8> built by float_samples_to_bytes
    info,           \* print_buffer_info output (at most one summary)
    text,           \* bytes listed as text by the hex / array printers
    raw             \* bytes written verbatim to stdout

vars == <<build, argc, i, config, pc, exit_code, wrapped, total_samples,
          total_bytes, num_samples, dt, phase, gi, divisions, samples, ei,
          buffer, info, text, raw>>

parseVars == <<build, argc, wrapped, total_samples, total_bytes,
               num_samples, dt, phase, gi, divisions, samples, ei, buffer,
               info, text, raw>>

\* parse_args: the Config literal
DefaultConfig ==
    [frequency     |-> FromNat(440),
     sample_rate   |-> 16000,
     channels      |-> 2,
     sample_width  |-> 2,
     duration_ms   |-> FromNat(1),
     output_format |-> "Hex",
     analyze_only  |-> FALSE]

Locals ==
    /\ wrapped = FALSE
    /\ total_samples = 0
    /\ total_bytes = 0
    /\ num_samples = 0
    /\ dt = FZero
    /\ phase = FZero
    /\ gi = 0
    /\ divisions = 0
    /\ ei = 0
    /\ buffer = <<>>
    /\ info = <<>>
    /\ text = <<>>
    /\ raw = <<>>

Init ==
    /\ build \in {"debug", "release"}
    /\ argc \in 0..MaxArgs
    /\ i = 1
    /\ config = DefaultConfig
    /\ pc = "parse"
    /\ exit_code = -1
    /\ samples = <<>>
    /\ Locals

\* ----------------------------------------------------------- parse_args
\* process::exit(code)
Exit(code) ==
    /\ pc' = "exit"
    /\ exit_code' = code
    /\ UNCHANGED <<i, config>>

\* one loop iteration that read a flag and, when present, its value
Advance(cfg, n) ==
    /\ config' = cfg
    /\ i' = i + n
    /\ UNCHANGED <<pc, exit_code>>

ParseHelp ==
    /\ pc = "parse" /\ i <= argc
    /\ Exit(0)
    /\ UNCHANGED parseVars

ParseFrequency ==
    /\ pc = "parse" /\ i <= argc
    /\ IF i + 1 <= argc
       THEN \E str \in FrequencyArgs :
              LET r == ParseF32(str) IN
              IF r.ok THEN Advance([config EXCEPT !.frequency = r.v], 2)
                      ELSE Exit(1)
       ELSE Advance(config, 2)
    /\ UNCHANGED parseVars

ParseRate ==
    /\ pc = "parse" /\ i <= argc
    /\ IF i + 1 <= argc
       THEN \E str \in RateArgs :
              LET r == ParseU32(str) IN
              IF r.ok THEN Advance([config EXCEPT !.sample_rate = r.v], 2)
                      ELSE Exit(1)
       ELSE Advance(config, 2)
    /\ UNCHANGED parseVars

ParseChannels ==
    /\ pc = "parse" /\ i <= argc
    /\ IF i + 1 <= argc
       THEN \E str \in ChannelArgs :
              LET r == ParseU8(str) IN
              IF ~r.ok THEN Exit(1)
              ELSE IF r.v # 1 /\ r.v # 2 THEN Exit(1)
              ELSE Advance([config EXCEPT !.channels = r.v], 2)
       ELSE Advance(config, 2)
    /\ UNCHANGED parseVars

ParseBits ==
    /\ pc = "parse" /\ i <= argc
    /\ IF i + 1 <= argc
       THEN \E str \in BitsArgs :
              LET r == SampleWidth_from_str(str) IN
              IF r.ok THEN Advance([config EXCEPT !.sample_width = r.v], 2)
                      ELSE Exit(1)
       ELSE Advance(config, 2)
    /\ UNCHANGED parseVars

ParseDuration ==
    /\ pc = "parse" /\ i <= argc
    /\ IF i + 1 <= argc
       THEN \E str \in DurationArgs :
              LET r == ParseF32(str) IN
              IF r.ok THEN Advance([config EXCEPT !.duration_ms = r.v], 2)
                      ELSE Exit(1)
       ELSE Advance(config, 2)
    /\ UNCHANGED parseVars

ParseOutput ==
    /\ pc = "parse" /\ i <= argc
    /\ IF i + 1 <= argc
       THEN \E str \in OutputArgs :
              LET r == OutputFormat_from_str(str) IN
              IF r.ok THEN Advance([config EXCEPT !.output_format = r.v], 2)
                      ELSE Exit(1)
       ELSE Advance(config, 2)
    /\ UNCHANGED parseVars

ParseAnalyze ==
    /\ pc = "parse" /\ i <= argc
    /\ Advance([config EXCEPT !.analyze_only = TRUE,
                              !.output_format = "Info"], 1)
    /\ UNCHANGED parseVars

ParseUnknown ==
    /\ pc = "parse" /\ i <= argc
    /\ Exit(1)
    /\ UNCHANGED parseVars

\* the loop ends and config is returned; args and i go out of scope
ParseReturn ==
    /\ pc = "parse" /\ i > argc
    /\ pc' = "main"
    /\ i' = 0
    /\ argc' = 0
    /\ UNCHANGED <<build, config, exit_code, wrapped, total_samples,
                   total_bytes, num_samples, dt, phase, gi, divisions,
                   samples, ei, buffer, info, text, raw>>

\* ----------------------------------------------------------------- main
\* main: total_samples and total_bytes (lines 473-475)
MainCounts ==
    /\ pc = "main"
    /\ total_samples' =
         AsUsize(FRound(FDiv(FMul(config.duration_ms,
                                  FromNat(config.sample_rate)),
                             FromNat(1000))))
    /\ total_bytes' = total_samples' * (config.sample_width * config.channels)
    /\ pc' = "call"
    /\ UNCHANGED <<build, argc, i, config, exit_code, wrapped, num_samples,
                   dt, phase, gi, divisions, samples, ei, buffer, info,
                   text, raw>>

\* the arguments main passes to generate_linear_chirp (lines 477-482)
CallF0 == config.frequency
CallF1 == config.frequency
CallSampleRate == FromNat(config.sample_rate)
CallDurationSecs == FDiv(config.duration_ms, FromNat(1000))

\* ------------------------------------------------- generate_linear_chirp
chirp_dt(sample_rate) == FDiv(FromNat(1), sample_rate)

chirp_num_samples(sample_rate, duration_secs) ==
    AsUsize(FRound(FMul(duration_secs, sample_rate)))

\* instantaneous frequency at time t
chirp_freq(f0, f1, t, duration_secs) ==
    FAdd(f0, FMul(FSub(f1, f0), FDiv(t, duration_secs)))

\* phase += TAU * freq * dt; phase = phase.rem_euclid(TAU)
chirp_phase(ph, freq, d) ==
    RemEuclid(FAdd(ph, FMul(FMul(TAU, freq), d)), TAU)

\* lines 274-277; runs longer than MaxSamples are not followed
GenerateStart ==
    /\ pc = "call"
    /\ chirp_num_samples(CallSampleRate, CallDurationSecs) <= MaxSamples
    /\ dt' = chirp_dt(CallSampleRate)
    /\ num_samples' = chirp_num_samples(CallSampleRate, CallDurationSecs)
    /\ samples' = <<>>
    /\ phase' = FZero
    /\ gi' = 0
    /\ pc' = "generate"
    /\ UNCHANGED <<build, argc, i, config, exit_code, wrapped,
                   total_samples, total_bytes, divisions, ei, buffer, info,
                   text, raw>>

\* one iteration of the loop, lines 279-288
GenerateStep ==
    /\ pc = "generate"
    /\ gi < num_samples
    /\ LET t    == FMul(FromNat(gi), dt)
           freq == chirp_freq(CallF0, CallF1, t, CallDurationSecs)
       IN /\ phase' = chirp_phase(phase, freq, dt)
          /\ samples' = Append(samples, Sin(phase'))
    /\ divisions' = divisions + 1
    /\ gi' = gi + 1
    /\ UNCHANGED <<build, argc, i, config, pc, exit_code, wrapped,
                   total_samples, total_bytes, num_samples, dt, ei, buffer,
                   info, text, raw>>

GenerateReturn ==
    /\ pc = "generate"
    /\ gi >= num_samples
    /\ pc' = "encode"
    /\ ei' = 0
    /\ buffer' = <<>>
    /\ UNCHANGED <<build, argc, i, config, exit_code, wrapped,
                   total_samples, total_bytes, num_samples, dt, phase, gi,
                   divisions, samples, info, text, raw>>

\* ------------------------------------------------ float_samples_to_bytes
\* (sample * max_val).round() as i32
Scaled(sample, sample_width) ==
    AsI32(FRound(FMul(sample, get_range(sample_width))))

\* the inner loops nested the other way round: each byte once per channel
FrameByteMajor(bytes, channels, sample_width) ==
    [j \in 1..(channels * sample_width) |-> bytes[((j - 1) \div channels) + 1]]

\* the inner loops: bytes[0..sample_width] pushed once per channel
Frame(bytes, channels, sample_width) ==
    [j \in 1..(channels * sample_width) |-> bytes[((j - 1) % sample_width) + 1]]

\* one iteration of the outer loop, lines 297-305
EncodeStep ==
    /\ pc = "encode"
    /\ ei < Len(samples)
    /\ buffer' = buffer \o Frame(ToLeBytes(Scaled(samples[ei + 1],
                                                  config.sample_width)),
                                 config.channels, config.sample_width)
    /\ ei' = ei + 1
    /\ UNCHANGED <<build, argc, i, config, pc, exit_code, wrapped,
                   total_samples, total_bytes, num_samples, dt, phase, gi,
                   divisions, samples, info, text, raw>>

EncodeReturn ==
    /\ pc = "encode"
    /\ ei >= Len(samples)
    /\ pc' = "output"
    /\ UNCHANGED <<build, argc, i, config, exit_code, wrapped,
                   total_samples, total_bytes, num_samples, dt, phase, gi,
                   divisions, samples, ei, buffer, info, text, raw>>

\* ------------------------------------------------------------- printers
\* print_buffer_info: the counts and the frequency analysis it prints
print_buffer_info(cfg, n_samples, n_bytes) ==
    LET period_samples == FDiv(FromNat(cfg.sample_rate), cfg.frequency)
    IN [samples |-> n_samples,
        bytes   |-> n_bytes,
        period  |-> period_samples,
        cycles  |-> FDiv(FromNat(n_samples), period_samples)]

\* buffer.chunks(n)
Chunks(buf, n) ==
    [l \in 1..((Len(buf) + n - 1) \div n) |->
        SubSeq(buf, (l - 1) * n + 1,
               IF l * n < Len(buf) THEN l * n ELSE Len(buf))]

\* print_buffer_hex: the bytes of each printed line
print_buffer_hex(buf, bytes_per_line) ==
    [kind |-> "hex", lines |-> Chunks(buf, bytes_per_line)]

\* `buffer.len() - 1` is evaluated once per printed byte (lines 389, 425)
ArrayUnderflow(buf) ==
    \E l \in 1..Len(Chunks(buf, 16)) : Len(buf) - 1 < 0

\* print_c_array / print_rust_array: name parts, declared length, lines
print_array(kind, buf, cfg) ==
    [kind  |-> kind,
     name  |-> <<cfg.sample_rate, AsU32(cfg.duration_ms),
                 to_str(cfg.sample_width), cfg.channels>>,
     len   |-> Len(buf),
     lines |-> Chunks(buf, 16)]

\* ------------------------------------------------ create_wav_file_array
\* a u32 is the pair <<hi, lo>> of its 16-bit limbs
U32Of(n) == <<n \div 65536, n % 65536>>

\* a * k in u32: the wrapped product and whether it overflowed
MulU32(a, k) ==
    LET lo == a[2] * k
        hi == a[1] * k + lo \div 65536
    IN [v |-> <<hi % 65536, lo % 65536>>, overflow |-> hi >= 65536]

LeU32(v) == <<v[2] % 256, v[2] \div 256, v[1] % 256, v[1] \div 256>>
LeU16(n) == <<n % 256, n \div 256>>

\* WavHeader::new()
WavHeader_new ==
    [chunk_id        |-> <<82, 73, 70, 70>>,
     chunk_size      |-> U32Of(0),
     format          |-> <<87, 65, 86, 69>>,
     subchunk_1_id   |-> <<102, 109, 116, 32>>,
     subchunk_1_size |-> U32Of(16),
     audio_format    |-> 1,
     num_channels    |-> 1,
     sample_rate     |-> U32Of(44100),
     byte_rate       |-> U32Of(176400),
     block_align     |-> 2,
     bits_per_sample |-> 16,
     subchunk_2_id   |-> <<100, 97, 116, 97>>,
     subchunk_2_size |-> U32Of(0)]

\* the memory image of the packed struct on a little-endian target
WavHeaderBytes(h) ==
    h.chunk_id \o LeU32(h.chunk_size) \o h.format \o h.subchunk_1_id
    \o LeU32(h.subchunk_1_size) \o LeU16(h.audio_format)
    \o LeU16(h.num_channels) \o LeU32(h.sample_rate) \o LeU32(h.byte_rate)
    \o LeU16(h.block_align) \o LeU16(h.bits_per_sample) \o h.subchunk_2_id
    \o LeU32(h.subchunk_2_size)

create_wav_file_array(buf, sample_rate, channels, sample_width) ==
    LET m1 == MulU32(U32Of(sample_rate), channels)
        m2 == MulU32(m1.v, sample_width)
        wav_hdr == [WavHeader_new EXCEPT
                      !.chunk_size      = U32Of(36 + Len(buf)),
                      !.num_channels    = channels,
                      !.sample_rate     = U32Of(sample_rate),
                      !.byte_rate       = m2.v,
                      !.block_align     = channels * sample_width,
                      !.bits_per_sample = sample_width * 8,
                      !.subchunk_2_size = U32Of(Len(buf))]
    IN [overflow |-> m1.overflow \/ m2.overflow,
        file     |-> WavHeaderBytes(wav_hdr) \o buf]

\* ------------------------------------------------- main: match on format
Finish ==
    /\ pc' = "done"
    /\ exit_code' = 0

\* an arithmetic overflow: panic under debug, wrap-around under release
Panic ==
    /\ pc' = "panic"
    /\ exit_code' = 101

outVars == <<build, argc, i, config, total_samples, total_bytes,
             num_samples, dt, phase, gi, divisions, samples, ei, buffer>>

OutInfo ==
    /\ pc = "output" /\ config.output_format = "Info"
    /\ info' = <<print_buffer_info(config, total_samples, total_bytes)>>
    /\ Finish
    /\ UNCHANGED <<outVars, wrapped, text, raw>>

OutHex ==
    /\ pc = "output" /\ config.output_format = "Hex"
    /\ info' = <<print_buffer_info(config, total_samples, total_bytes)>>
    /\ text' = <<print_buffer_hex(buffer, 16)>>
    /\ Finish
    /\ UNCHANGED <<outVars, wrapped, raw>>

OutCArray ==
    /\ pc = "output" /\ config.output_format = "CArray"
    /\ info' = <<print_buffer_info(config, total_samples, total_bytes)>>
    /\ IF ArrayUnderflow(buffer) /\ build = "debug"
       THEN Panic /\ UNCHANGED <<wrapped, text>>
       ELSE /\ text' = <<print_array("c", buffer, config)>>
            /\ wrapped' = (wrapped \/ ArrayUnderflow(buffer))
            /\ Finish
    /\ UNCHANGED <<outVars, raw>>

OutRustArray ==
    /\ pc = "output" /\ config.output_format = "RustArray"
    /\ info' = <<print_buffer_info(config, total_samples, total_bytes)>>
    /\ IF ArrayUnderflow(buffer) /\ build = "debug"
       THEN Panic /\ UNCHANGED <<wrapped, text>>
       ELSE /\ text' = <<print_array("rust", buffer, config)>>
            /\ wrapped' = (wrapped \/ ArrayUnderflow(buffer))
            /\ Finish
    /\ UNCHANGED <<outVars, raw>>

OutRaw ==
    /\ pc = "output" /\ config.output_format = "RawBytes"
    /\ raw' = buffer
    /\ Finish
    /\ UNCHANGED <<outVars, wrapped, info, text>>

OutWav ==
    /\ pc = "output" /\ config.output_format = "WavFile"
    /\ LET w == create_wav_file_array(buffer, config.sample_rate,
                                      config.channels, config.sample_width)
       IN IF w.overflow /\ build = "debug"
          THEN Panic /\ UNCHANGED <<wrapped, raw>>
          ELSE /\ raw' = w.file
               /\ wrapped' = (wrapped \/ w.overflow)
               /\ Finish
    /\ UNCHANGED <<outVars, info, text>>

\* ---------------------------------------------------------- specification
Next ==
    \/ ParseHelp \/ ParseFrequency \/ ParseRate \/ ParseChannels
    \/ ParseBits \/ ParseDuration \/ ParseOutput \/ ParseAnalyze
    \/ ParseUnknown \/ ParseReturn
    \/ MainCounts \/ GenerateStart \/ GenerateStep \/ GenerateReturn
    \/ EncodeStep \/ EncodeReturn
    \/ OutInfo \/ OutHex \/ OutCArray \/ OutRustArray \/ OutRaw \/ OutWav

Spec == Init /\ [][Next]_vars

\* ------------------------------------- float_samples_to_bytes on its own
\* sample values handed to the encoder: 0, 1, -1, 1/2, -3/4, 1/3, -1/3
SampleValues ==
    {FZero, FromNat(1), FNeg(FromNat(1)), FDiv(FromNat(1), FromNat(2)),
     FNeg(FDiv(FromNat(3), FromNat(4))), FDiv(FromNat(1), FromNat(3)),
     FNeg(FDiv(FromNat(1), FromNat(3)))}

SampleSlices ==
    UNION {[1..n -> SampleValues] : n \in 0..MaxSlice}

InitEnc ==
    /\ build \in {"debug", "release"}
    /\ argc = 0
    /\ i = 0
    /\ \E ch \in {1, 2}, w \in SampleWidths :
          config = [DefaultConfig EXCEPT !.channels = ch, !.sample_width = w]
    /\ pc = "encode"
    /\ exit_code = -1
    /\ samples \in SampleSlices
    /\ Locals

NextEnc == EncodeStep \/ EncodeReturn

SpecEnc == InitEnc /\ [][NextEnc]_vars

\* -------------------------------------------- steady-tone oscillator (4.1)
\* phase advance per sample: 2*pi * frequency / sample_rate
tone_increment(frequency, sample_rate) ==
    FDiv(FMul(TAU, frequency), sample_rate)

\* phase from which sample n (counted from 0) is taken
RECURSIVE tone_phase(_, _, _)
tone_phase(frequency, sample_rate, n) ==
    IF n = 0 THEN FZero
    ELSE RemEuclid(FAdd(tone_phase(frequency, sample_rate, n - 1),
                        tone_increment(frequency, sample_rate)), TAU)

tone_sample(frequency, sample_rate, n) ==
    Sin(tone_phase(frequency, sample_rate, n))

\* ---------------------------------------------------------------- claims
Started == pc \notin {"parse", "exit"}

\* C1: the buffer main builds has exactly the total_bytes main computes
\* and reports, round(duration_ms * sample_rate / 1000) * channels * width.
C1_BufferLength ==
    pc \in {"output", "done", "panic"} => Len(buffer) = total_bytes

\* exact sample_rate * channels * width as limbs <<hi, lo>>, hi unbounded
ExactByteRate(sample_rate, channels, sample_width) ==
    LET lo == (sample_rate % 65536) * channels * sample_width
    IN <<(sample_rate \div 65536) * channels * sample_width + lo \div 65536,
         lo % 65536>>

\* C2: create_wav_file_array returns 44 + N bytes: the packed little-endian
\* header (RIFF, 36 + N, WAVE, fmt , 16, 1, channels, sample_rate,
\* byte_rate = sample_rate * channels * w, block_align = channels * w,
\* bits = 8 * w, data, N) followed by the buffer unchanged.
C2_WavLayout ==
    (pc \in {"done", "panic"} /\ config.output_format = "WavFile") =>
       LET n  == Len(buffer)
           br == ExactByteRate(config.sample_rate, config.channels,
                               config.sample_width)
       IN /\ pc = "done"
          /\ Len(raw) = 44 + n
          /\ SubSeq(raw, 1, 4) = <<82, 73, 70, 70>>
          /\ SubSeq(raw, 5, 8) = LeU32(U32Of(36 + n))
          /\ SubSeq(raw, 9, 12) = <<87, 65, 86, 69>>
          /\ SubSeq(raw, 13, 16) = <<102, 109, 116, 32>>
          /\ SubSeq(raw, 17, 20) = <<16, 0, 0, 0>>
          /\ SubSeq(raw, 21, 22) = <<1, 0>>
          /\ SubSeq(raw, 23, 24) = <<config.channels, 0>>
          /\ SubSeq(raw, 25, 28) = LeU32(U32Of(config.sample_rate))
          /\ br[1] < 65536
          /\ SubSeq(raw, 29, 32) = LeU32(br)
          /\ SubSeq(raw, 33, 34) = <<config.channels * config.sample_width, 0>>
          /\ SubSeq(raw, 35, 36) = <<8 * config.sample_width, 0>>
          /\ SubSeq(raw, 37, 40) = <<100, 97, 116, 97>>
          /\ SubSeq(raw, 41, 44) = LeU32(U32Of(n))
          /\ SubSeq(raw, 45, 44 + n) = buffer

\* the positive bound 2^(8*width-1) - 1 of each sample width
PositiveBound(sample_width) ==
    CASE sample_width = 2 -> 32767
      [] sample_width = 3 -> 8388607
      [] sample_width = 4 -> 2147483647

\* the lowest `width` little-endian bytes of a non-negative integer
LowBytes(n, sample_width) ==
    [j \in 1..sample_width |-> (n \div Pow2(8 * (j - 1))) % 256]

\* C3: a sample of amplitude 1.0 is encoded as 32767 (width 2), 8388607
\* (width 3) or 2147483647 (width 4): the first channel of its frame holds
\* the little-endian bytes of that integer.
C3_FullScale ==
    \A k \in 1..ei :
       samples[k] = FromNat(1) =>
          LET w    == config.sample_width
              base == (k - 1) * config.channels * w
          IN SubSeq(buffer, base + 1, base + w) = LowBytes(PositiveBound(w), w)

\* a full-scale sample has been encoded at 32 bits
C3_Witness ==
    /\ pc = "output" /\ config.sample_width = 4
    /\ ei = Len(samples) /\ ei >= 1
    /\ samples[ei] = FromNat(1)
    /\ Len(buffer) = ei * config.channels * 4

\* C4: the generator emits sin(phase) before advancing the phase, so sample
\* 0 is sin(0) = 0 for every frequency; 1000 Hz at 16000 Hz, mono, 16 bit,
\* 1 ms gives 16 samples / 32 bytes starting with 0x00 0x00.
C4_FirstSampleZero ==
    /\ Len(samples) >= 1 => FIsZero(samples[1])
    /\ ( /\ pc = "output"
         /\ config.frequency = FromNat(1000) /\ config.sample_rate = 16000
         /\ config.channels = 1 /\ config.sample_width = 2
         /\ config.duration_ms = FromNat(1) )
       => /\ Len(samples) = 16 /\ Len(buffer) = 32
          /\ buffer[1] = 0 /\ buffer[2] = 0

\* C5: at every sample boundary of the generation loop the phase lies in
\* [0, 2*pi): never negative, never 2*pi or more.
C5_PhaseInRange ==
    pc = "generate" => ~FLt(phase, FZero) /\ FLt(phase, TAU)

\* C6: with duration 0 no sample is produced, the buffer is empty, the
\* division t / duration_secs is never evaluated, nothing panics whatever
\* the output format, and info reports 0 samples and 0 bytes.
C6_ZeroDuration ==
    (Started /\ FIsZero(config.duration_ms)) =>
       /\ divisions = 0
       /\ samples = <<>>
       /\ buffer = <<>>
       /\ pc # "panic"
       /\ \A k \in 1..Len(info) : info[k].samples = 0 /\ info[k].bytes = 0

\* C7: the degenerate chirp (f0 = f1) main runs produces, index by index,
\* the samples of the steady-tone oscillator at that frequency, and both
\* are in the same phase state after every sample.
C7_DegenerateChirp ==
    /\ \A k \in 1..Len(samples) :
          samples[k] = tone_sample(CallF0, CallSampleRate, k - 1)
    /\ pc = "generate" => phase = tone_phase(CallF0, CallSampleRate, gi)

\* byte b (0 = lowest) of an i32
ByteOf(v, b) ==
    CASE b = 0 -> v[2] % 256
      [] b = 1 -> v[2] \div 256
      [] b = 2 -> v[1] % 256
      [] b = 3 -> v[1] \div 256

\* C8: the buffer is interleaved and frame-major: the bytes at offsets
\* (i*channels + c)*width .. +width-1 are the lowest `width` bytes, lowest
\* first, of q_i = round(s_i * max_value), the same for every channel.
C8_Interleaved ==
    LET ch == config.channels
        w  == config.sample_width
    IN /\ Len(buffer) = ei * ch * w
       /\ \A k \in 0..(ei - 1), c \in 0..(ch - 1), b \in 0..(w - 1) :
             buffer[(k * ch + c) * w + b + 1]
                = ByteOf(Scaled(samples[k + 1], w), b)

\* two different non-zero samples have been encoded for two channels
C8_Witness ==
    /\ pc = "output" /\ config.channels = 2 /\ config.sample_width = 3
    /\ ei = 2 /\ Len(buffer) = 12
    /\ samples[1] = FNeg(FDiv(FromNat(1), FromNat(3)))
    /\ samples[2] = FDiv(FromNat(1), FromNat(2))

\* C9: once -a / --analyze has been read, the config parse_args returns
\* has output format info and main emits no buffer bytes.
C9_AnalyzeForcesInfo ==
    (Started /\ config.analyze_only) =>
       /\ config.output_format = "Info"
       /\ text = <<>>
       /\ raw = <<>>

\* C10: for every config parse_args can return the core runs without a
\* panic and without an integer wrapping around.
C10_NoOverflow ==
    pc # "panic" /\ ~wrapped

====
